---- MODULE Spec2Model ----
(***************************************************************************)
(* jvman: the asynchronous fetch-and-install pipeline of jvtgui/helpers.py *)
(* (DownloaderThread, ExtractionThread) and the CheckBoxButtonGroup of     *)
(* jvtgui/widgets.py.  Each worker is a QThread whose                      *)
(* run() body executes on its own thread while the GUI thread calls        *)
(* __call__ (start) and stop().  The run body is modelled statement by     *)
(* statement, so that stop() interleaves with it at every point.           *)
(***************************************************************************)
EXTENDS Integers, Sequences, FiniteSets, TLC

VARIABLES
    dl,          \* DownloaderThread's attributes (helpers.py 208-218)
    dlPc,        \* position of the download thread in run(); "idle" = not running
    dlLocal,     \* locals of DownloaderThread.run: request, iterator, count, chunk, part_file
    fs,          \* files of the download directories: path -> [exists, data]
    dlEvents,    \* signals emitted since the latest start() that launched a run
    dlHist       \* history of the latest run: its number and outcome, the phases its
                 \* stop() calls came in, fs and dl at its start, the response it got,
                 \* the chunks it wrote; and the numbers of calls made so far

VARIABLES
    ex,          \* ExtractionThread's attributes (helpers.py 150-153)
    exPc,        \* position of the extraction thread in run(); "idle" = not running
    exLocal,     \* locals of ExtractionThread.run: the listing being iterated, member
    archive,     \* top-level entries of the archive at source_file
    dest,        \* top-level entries of dest_dir: name -> entry
    staging,     \* top-level entries of the temporary directory of the latest run
    exEvents,    \* signals emitted since the latest start() that launched a run
    exHist,      \* history: the latest run's number, outcome and stop() calls, dest at
                 \* its start, and what every earlier run left
    exWait       \* position of the GUI thread in ExtractionThread.__del__: "none" (not
                 \* called), "waiting" (inside wait()), "returned"

VARIABLES
    boxes        \* the check boxes of the window: for each whether it is in the
                 \* CheckBoxButtonGroup, checked, enabled, and enabled when it was added

dlVars == <<dl, dlPc, dlLocal, fs, dlEvents, dlHist>>

exVars == <<ex, exPc, exLocal, archive, dest, staging, exEvents, exHist, exWait>>

vars == <<dl, dlPc, dlLocal, fs, dlEvents, dlHist,
          ex, exPc, exLocal, archive, dest, staging, exEvents, exHist, exWait,
          boxes>>

----------------------------------------------------------------------------
\* Bounds of the model.
MaxChunks == 1      \* chunks a response body is delivered in, at most
MaxDownloads == 1   \* calls of DownloaderThread.__call__
MaxExtractions == 2 \* calls of ExtractionThread.__call__
MaxStops == 1       \* calls of stop() per worker
MaxStarts == 2      \* calls of DownloaderThread.__call__ when stop() is never called
MaxButtons == 3     \* check boxes the window has

\* DownloaderThread(chunk_size=1024)
ChunkSize == 1024

HalfChunk == ChunkSize \div 2

----------------------------------------------------------------------------
\* Values.  A file name is its dot-separated parts (<<"jdk","zip">> is jdk.zip),
\* a path is a directory and a name; None is the empty name / empty path.

NoName == <<>>

NoPath == [dir |-> "", name |-> NoName]

Dirs == {"dl1", "dl2"}

\* The (url, location) pairs the GUI passes to __call__.
Targets == {<<"url1", "dl1">>, <<"url2", "dl2">>}

ServedName == <<"jdk", "zip">>

RECURSIVE SumSeq(_)
SumSeq(s) == IF s = <<>> THEN 0 ELSE Head(s) + SumSeq(Tail(s))

Front(s) == SubSeq(s, 1, Len(s) - 1)

Last(s) == s[Len(s)]

\* Path(location, filename).resolve()
MkPath(location, filename) == [dir |-> location, name |-> filename]

\* PurePath.suffix: the last dot-separated part of the name, if any
Suffix(p) == IF Len(p.name) > 1 THEN <<Last(p.name)>> ELSE <<>>

\* PurePath.with_suffix(suffix): the last suffix of the name replaced
WithSuffix(p, suffix) ==
    [p EXCEPT !.name = (IF Len(p.name) > 1 THEN Front(p.name) ELSE p.name) \o suffix]

\* (file_location.parent / file_location.name).with_suffix(file_location.suffix + ".part")
PartPath(file_location) == WithSuffix(file_location, Suffix(file_location) \o <<"part">>)

\* int(s) of a string of decimal digits
RECURSIVE ParseInt(_)
ParseInt(digits) ==
    IF digits = <<>> THEN 0 ELSE 10 * ParseInt(Front(digits)) + Last(digits)

\* The decimal digits of n, as a server writes a Content-Length value.
RECURSIVE Digits(_)
Digits(n) == IF n < 10 THEN <<n>> ELSE Digits(n \div 10) \o <<n % 10>>

\* A findall that falls back to a made-up name when nothing matches.
FindAllFilenameOrDefault(value) ==
    LET hits == {i \in 1..Len(value) : value[i] = "filename=" /\ i < Len(value)}
    IN IF hits = {} THEN <<ServedName>>
       ELSE LET i == CHOOSE j \in hits : \A k \in hits : j <= k
            IN <<SubSeq(value, i + 1, Len(value))>>

\* re.findall(r"filename=(.+)", value): the captures, each the rest of the value
\* after a "filename=" that something follows.  The value is a sequence of tokens.
FindAllFilename(value) ==
    LET hits == {i \in 1..Len(value) : value[i] = "filename=" /\ i < Len(value)}
    IN IF hits = {} THEN <<>>
       ELSE LET i == CHOOSE j \in hits : \A k \in hits : j <= k
            IN <<SubSeq(value, i + 1, Len(value))>>

----------------------------------------------------------------------------
\* HTTP responses the server may give: a status and headers.  Content-Length is
\* what the server declares; the chunks iter_content yields afterwards (decoded
\* bytes) may add up to it, to more (Content-Encoding: gzip is decoded by
\* iter_content) or to less (the connection is closed early).

ChunkLens == {0, HalfChunk, ChunkSize}

DeclaredLens == {HalfChunk, ChunkSize}

Dispositions == {<<"attachment">>, <<"attachment", "filename=">>,
                 <<"attachment", "filename=">> \o ServedName}

NoHeaders == [h \in {} |-> <<>>]

HeaderSets ==
    {NoHeaders}
    \cup {("content-length" :> Digits(ChunkSize))}
    \cup {("content-disposition" :> d) :
              d \in {<<"attachment", "filename=">> \o ServedName}}
    \cup {("content-length" :> Digits(n) @@ "content-disposition" :> d) :
              n \in DeclaredLens, d \in Dispositions}

Responses ==
    {[status |-> 404, headers |-> NoHeaders]}
    \cup {[status |-> 200, headers |-> h] : h \in HeaderSets}

NoResponse == [status |-> 0, headers |-> NoHeaders]

----------------------------------------------------------------------------
\* Files.  A file's data is the sequence of chunks written to it, each tagged with
\* the run that wrote it and its index; a file that existed before any run holds
\* one chunk of run 0.

Absent == [exists |-> FALSE, data |-> <<>>]

File(data) == [exists |-> TRUE, data |-> data]

OldData == <<[run |-> 0, idx |-> 0, len |-> ChunkSize]>>

AllPaths ==
    {MkPath(d, ServedName) : d \in Dirs} \cup {PartPath(MkPath(d, ServedName)) : d \in Dirs}

Ev(name, path, num) == [name |-> name, path |-> path, num |-> num]

NoLocal ==
    [url |-> "", request |-> NoResponse, pos |-> 0, count |-> 0, chunk |-> 0, part_file |-> <<>>]

Count(events, name) == Cardinality({i \in 1..Len(events) : events[i].name = name})

----------------------------------------------------------------------------
\* DownloaderThread

DlInit ==
    /\ \E b \in BOOLEAN :
           dl = [use_bytesio |-> b, filename |-> NoName, filesize |-> -1,
                 downloaded_bytes |-> 0, url |-> "", location |-> "",
                 file_location |-> NoPath, part_location |-> NoPath,
                 success |-> FALSE, stopped |-> FALSE]
    /\ dlPc = "idle"
    /\ dlLocal = NoLocal
    /\ \E old \in BOOLEAN :
           fs = [p \in AllPaths |->
                    IF old /\ p.name = ServedName THEN File(OldData) ELSE Absent]
    /\ dlEvents = <<>>
    /\ dlHist = [run |-> 0, outcome |-> "none", stops |-> <<>>, fs0 |-> fs, dl0 |-> dl,
                 request |-> NoResponse, written |-> <<>>, starts |-> 0, stopCalls |-> 0,
                 args |-> <<"", "">>]

\* Where the run body is: not running, started but not begun, before the chunk
\* loop, in it, or after it.
DlPhase(pc) ==
    CASE pc = "idle" -> "idle"
      [] pc = "started" -> "started"
      [] pc \in {"l270", "l271", "l274", "l280", "l281"} -> "loop"
      [] pc \in {"l283", "l285", "l289", "l297", "l298"} -> "tail"
      [] OTHER -> "head"

DlEmit(e) == dlEvents' = Append(dlEvents, e)

\* The run body ends: by falling off its end, by return, or by an uncaught exception.
DlFinish(outcome) ==
    /\ dlPc' = "idle"
    /\ dlLocal' = NoLocal
    /\ dlHist' = [dlHist EXCEPT !.outcome = outcome]

DlStep(from, to) ==
    /\ dlPc = from
    /\ dlPc' = to

\* __call__(url, location): the attributes are overwritten, then QThread.start(),
\* which does nothing when the thread is already running.
DlStart(url, location) ==
    /\ dl' = [dl EXCEPT !.url = url, !.location = location]
    /\ IF dlPc = "idle"
       THEN /\ dlPc' = "started"
            /\ dlEvents' = <<>>
            /\ dlHist' = [run |-> dlHist.run + 1, outcome |-> "running", stops |-> <<>>,
                          fs0 |-> fs, dl0 |-> dl, request |-> NoResponse,
                          written |-> <<>>, starts |-> dlHist.starts + 1,
                          stopCalls |-> dlHist.stopCalls, args |-> <<url, location>>]
       ELSE /\ dlHist' = [dlHist EXCEPT !.starts = @ + 1]
            /\ UNCHANGED <<dlPc, dlEvents>>
    /\ UNCHANGED <<dlLocal, fs>>
    /\ UNCHANGED <<exVars, boxes>>

\* The GUI calls __call__ at most MaxDownloads times.
DlCall(url, location) ==
    /\ dlHist.starts < MaxDownloads
    /\ DlStart(url, location)

\* The GUI calls __call__ at most MaxStarts times.
DlCallAgain(url, location) ==
    /\ dlHist.starts < MaxStarts
    /\ DlStart(url, location)

\* stop(), lines 229-233: _stopped = True, success = False,
\* endDownload.emit(str(self.file_location)); exit(0) ends an event loop that run()
\* never enters, so the run body goes on until it looks at _stopped
DlStop ==
    /\ dlHist.stopCalls < MaxStops
    /\ dl' = [dl EXCEPT !.stopped = TRUE, !.success = FALSE]
    /\ DlEmit(Ev("EndDownload", dl.file_location, 0))
    /\ dlHist' = [dlHist EXCEPT !.stops = Append(@, DlPhase(dlPc)), !.stopCalls = @ + 1]
    /\ UNCHANGED <<dlPc, dlLocal, fs>>
    /\ UNCHANGED <<exVars, boxes>>

\* run(), line 236
DlRunResetStopped ==
    /\ DlStep("started", "l237")
    /\ dl' = [dl EXCEPT !.stopped = FALSE]
    /\ UNCHANGED <<dlLocal, fs, dlEvents, dlHist>>
    /\ UNCHANGED <<exVars, boxes>>

\* run(), line 237
DlRunResetSuccess ==
    /\ DlStep("l237", "l239")
    /\ dl' = [dl EXCEPT !.success = FALSE]
    /\ UNCHANGED <<dlLocal, fs, dlEvents, dlHist>>
    /\ UNCHANGED <<exVars, boxes>>

\* run(), line 239
DlRunBeginRequest ==
    /\ DlStep("l239", "l241")
    /\ DlEmit(Ev("BeginRequest", NoPath, 0))
    /\ UNCHANGED <<dl, dlLocal, fs, dlHist>>
    /\ UNCHANGED <<exVars, boxes>>

\* run(), line 241: requests.get(self._url, stream=True) returns a response
DlRunRequest ==
    /\ DlStep("l241", "l242")
    /\ \E r \in Responses :
           /\ dlLocal' = [dlLocal EXCEPT !.url = dl.url, !.request = r]
           /\ dlHist' = [dlHist EXCEPT !.request = r]
    /\ UNCHANGED <<dl, fs, dlEvents>>
    /\ UNCHANGED <<exVars, boxes>>

\* run(), line 241: requests.get raises (no connection)
DlRunRequestFails ==
    /\ dlPc = "l241"
    /\ DlFinish("ConnectionError")
    /\ UNCHANGED <<dl, fs, dlEvents>>
    /\ UNCHANGED <<exVars, boxes>>

\* run(), line 242
DlRunEndRequest ==
    /\ DlStep("l242", "l244")
    /\ DlEmit(Ev("EndRequest", NoPath, 0))
    /\ UNCHANGED <<dl, dlLocal, fs, dlHist>>
    /\ UNCHANGED <<exVars, boxes>>

\* run(), line 244: request.raise_for_status()
DlRunRaiseForStatus ==
    /\ dlPc = "l244"
    /\ IF dlLocal.request.status >= 400
       THEN DlFinish("HTTPError")
       ELSE dlPc' = "l246" /\ UNCHANGED <<dlLocal, dlHist>>
    /\ UNCHANGED <<dl, fs, dlEvents>>
    /\ UNCHANGED <<exVars, boxes>>

\* run(), line 246: self.filesize = int(request.headers["content-length"])
DlRunFilesize ==
    /\ dlPc = "l246"
    /\ IF "content-length" \in DOMAIN dlLocal.request.headers
       THEN /\ dl' = [dl EXCEPT !.filesize =
                         ParseInt(dlLocal.request.headers["content-length"])]
            /\ dlPc' = "l247"
            /\ UNCHANGED <<dlLocal, dlHist>>
       ELSE /\ DlFinish("KeyError")
            /\ UNCHANGED dl
    /\ UNCHANGED <<fs, dlEvents>>
    /\ UNCHANGED <<exVars, boxes>>

\* run(), line 247:
\* self.filename = re.findall(r"filename=(.+)", request.headers["content-disposition"])[0]
DlRunFilename ==
    /\ dlPc = "l247"
    /\ IF "content-disposition" \notin DOMAIN dlLocal.request.headers
       THEN DlFinish("KeyError") /\ UNCHANGED dl
       ELSE LET found == FindAllFilename(dlLocal.request.headers["content-disposition"])
            IN IF found = <<>>
               THEN DlFinish("IndexError") /\ UNCHANGED dl
               ELSE /\ dl' = [dl EXCEPT !.filename = found[1]]
                    /\ dlPc' = "l249"
                    /\ UNCHANGED <<dlLocal, dlHist>>
    /\ UNCHANGED <<fs, dlEvents>>
    /\ UNCHANGED <<exVars, boxes>>

\* run(), line 249
DlRunFilenameFound ==
    /\ DlStep("l249", "l250")
    /\ DlEmit(Ev("FilenameFound", MkPath("", dl.filename), 0))
    /\ UNCHANGED <<dl, dlLocal, fs, dlHist>>
    /\ UNCHANGED <<exVars, boxes>>

\* run(), line 250
DlRunFilesizeFound ==
    /\ DlStep("l250", "l252")
    /\ DlEmit(Ev("FilesizeFound", NoPath, dl.filesize))
    /\ UNCHANGED <<dl, dlLocal, fs, dlHist>>
    /\ UNCHANGED <<exVars, boxes>>

\* run(), lines 252-256: file_location and part_location
DlRunLocations ==
    /\ DlStep("l252", "l261")
    /\ LET file_location == MkPath(dl.location, dl.filename)
       IN dl' = [dl EXCEPT !.file_location = file_location,
                           !.part_location = PartPath(file_location)]
    /\ UNCHANGED <<dlLocal, fs, dlEvents, dlHist>>
    /\ UNCHANGED <<exVars, boxes>>

\* A run body that goes on counting from where the previous run stopped.
DlRunKeepBytes ==
    /\ DlStep("l261", "l263")
    /\ UNCHANGED <<dl, dlLocal, fs, dlEvents, dlHist>>
    /\ UNCHANGED <<exVars, boxes>>

\* run(), line 261
DlRunResetBytes ==
    /\ DlStep("l261", "l263")
    /\ dl' = [dl EXCEPT !.downloaded_bytes = 0]
    /\ UNCHANGED <<dlLocal, fs, dlEvents, dlHist>>
    /\ UNCHANGED <<exVars, boxes>>

\* run(), line 263
DlRunBeginDownload ==
    /\ DlStep("l263", "l265")
    /\ DlEmit(Ev("BeginDownload", dl.file_location, 0))
    /\ UNCHANGED <<dl, dlLocal, fs, dlHist>>
    /\ UNCHANGED <<exVars, boxes>>

\* run(), lines 265-268: part_file = BytesIO(), or open(self.part_location, "wb")
DlRunOpenPart ==
    /\ DlStep("l265", "l270")
    /\ dlLocal' = [dlLocal EXCEPT !.part_file = <<>>]
    /\ fs' = IF dl.use_bytesio THEN fs ELSE [fs EXCEPT ![dl.part_location] = File(<<>>)]
    /\ UNCHANGED <<dl, dlEvents, dlHist>>
    /\ UNCHANGED <<exVars, boxes>>

\* run(), line 270: the next (count, chunk) of enumerate(request.iter_content(...))
DlRunNextChunk ==
    /\ DlStep("l270", "l271")
    /\ dlLocal.pos < MaxChunks
    /\ \E len \in ChunkLens :
           dlLocal' = [dlLocal EXCEPT !.pos = @ + 1, !.count = dlLocal.pos, !.chunk = len]
    /\ UNCHANGED <<dl, fs, dlEvents, dlHist>>
    /\ UNCHANGED <<exVars, boxes>>

\* run(), line 270: the iteration ends
DlRunNoMoreChunks ==
    /\ DlStep("l270", "l283")
    /\ UNCHANGED <<dl, dlLocal, fs, dlEvents, dlHist>>
    /\ UNCHANGED <<exVars, boxes>>

\* run(), line 270: the read raises (connection lost)
DlRunReadFails ==
    /\ dlPc = "l270"
    /\ DlFinish("ChunkedEncodingError")
    /\ UNCHANGED <<dl, fs, dlEvents>>
    /\ UNCHANGED <<exVars, boxes>>

\* run(), lines 271-272: if self._stopped: return
DlRunCheckStopped ==
    /\ dlPc = "l271"
    /\ IF dl.stopped
       THEN DlFinish("returned")
       ELSE dlPc' = "l274" /\ UNCHANGED <<dlLocal, dlHist>>
    /\ UNCHANGED <<dl, fs, dlEvents>>
    /\ UNCHANGED <<exVars, boxes>>

\* part_file.write(chunk): to the buffer, or to the file at part_location
WriteChunk(files, path, bytesio, piece) ==
    IF bytesio THEN files ELSE [files EXCEPT ![path].data = Append(@, piece)]

\* run(), lines 274-278: an empty chunk is skipped; the chunk is written and counted
DlRunWriteChunk ==
    /\ dlPc = "l274"
    /\ IF dlLocal.chunk = 0
       THEN dlPc' = "l270" /\ UNCHANGED <<dl, dlLocal, fs, dlHist>>
       ELSE LET piece == [run |-> dlHist.run, idx |-> dlLocal.count, len |-> dlLocal.chunk]
            IN /\ dlLocal' = [dlLocal EXCEPT !.part_file = Append(@, piece)]
               /\ fs' = WriteChunk(fs, dl.part_location, dl.use_bytesio, piece)
               /\ dl' = [dl EXCEPT !.downloaded_bytes = @ + dlLocal.chunk]
               /\ dlHist' = [dlHist EXCEPT !.written = Append(@, piece)]
               /\ dlPc' = "l280"
    /\ UNCHANGED <<dlEvents>>
    /\ UNCHANGED <<exVars, boxes>>

\* A run body that reports the chunk before the byte count.
DlRunChunkWrittenFirst ==
    /\ DlStep("l280", "l281")
    /\ DlEmit(Ev("ChunkWritten", NoPath, dlLocal.count))
    /\ UNCHANGED <<dl, dlLocal, fs, dlHist>>
    /\ UNCHANGED <<exVars, boxes>>

\* run(), line 280
DlRunBytesChanged ==
    /\ DlStep("l280", "l281")
    /\ DlEmit(Ev("BytesChanged", NoPath, dl.downloaded_bytes))
    /\ UNCHANGED <<dl, dlLocal, fs, dlHist>>
    /\ UNCHANGED <<exVars, boxes>>

\* run(), line 281
DlRunChunkWritten ==
    /\ DlStep("l281", "l270")
    /\ DlEmit(Ev("ChunkWritten", NoPath, dlLocal.count))
    /\ UNCHANGED <<dl, dlLocal, fs, dlHist>>
    /\ UNCHANGED <<exVars, boxes>>

\* run(), line 283: part_file.flush(), and the response is closed
DlRunFlush ==
    /\ DlStep("l283", "l285")
    /\ UNCHANGED <<dl, dlLocal, fs, dlEvents, dlHist>>
    /\ UNCHANGED <<exVars, boxes>>

\* run(), line 286 (use_bytesio): open(self.file_location, "wb") truncates the file
DlRunOpenFinal ==
    /\ dl.use_bytesio
    /\ DlStep("l285", "l289")
    /\ fs' = [fs EXCEPT ![dl.file_location] = File(<<>>)]
    /\ UNCHANGED <<dl, dlLocal, dlEvents, dlHist>>
    /\ UNCHANGED <<exVars, boxes>>

\* run(), lines 287-291 (use_bytesio): the buffer is copied into the final file
DlRunWriteFinal ==
    /\ DlStep("l289", "l297")
    /\ fs' = [fs EXCEPT ![dl.file_location] = File(dlLocal.part_file)]
    /\ UNCHANGED <<dl, dlLocal, dlEvents, dlHist>>
    /\ UNCHANGED <<exVars, boxes>>

\* Path.replace(target): one rename; the source path is gone, the target holds its file
Replace(files, source, target) ==
    [files EXCEPT ![target] = files[source], ![source] = Absent]

\* run(), lines 293-295: part_file.close(); self.part_location.replace(self.file_location)
DlRunReplace ==
    /\ ~dl.use_bytesio
    /\ DlStep("l285", "l297")
    /\ fs' = Replace(fs, dl.part_location, dl.file_location)
    /\ UNCHANGED <<dl, dlLocal, dlEvents, dlHist>>
    /\ UNCHANGED <<exVars, boxes>>

\* run(), line 297
DlRunSetSuccess ==
    /\ DlStep("l297", "l298")
    /\ dl' = [dl EXCEPT !.success = TRUE]
    /\ UNCHANGED <<dlLocal, fs, dlEvents, dlHist>>
    /\ UNCHANGED <<exVars, boxes>>

\* run(), line 298
DlRunEndDownload ==
    /\ dlPc = "l298"
    /\ DlEmit(Ev("EndDownload", dl.file_location, 0))
    /\ DlFinish("completed")
    /\ UNCHANGED <<dl, fs>>
    /\ UNCHANGED <<exVars, boxes>>

\* The steps of the run body.
DlRun ==
    \/ DlRunResetStopped
    \/ DlRunResetSuccess
    \/ DlRunBeginRequest
    \/ DlRunRequest
    \/ DlRunRequestFails
    \/ DlRunEndRequest
    \/ DlRunRaiseForStatus
    \/ DlRunFilesize
    \/ DlRunFilename
    \/ DlRunFilenameFound
    \/ DlRunFilesizeFound
    \/ DlRunLocations
    \/ DlRunResetBytes
    \/ DlRunBeginDownload
    \/ DlRunOpenPart
    \/ DlRunNextChunk
    \/ DlRunNoMoreChunks
    \/ DlRunReadFails
    \/ DlRunCheckStopped
    \/ DlRunWriteChunk
    \/ DlRunBytesChanged
    \/ DlRunChunkWritten
    \/ DlRunFlush
    \/ DlRunOpenFinal
    \/ DlRunWriteFinal
    \/ DlRunReplace
    \/ DlRunSetSuccess
    \/ DlRunEndDownload

DlNext ==
    \/ \E t \in Targets : DlCall(t[1], t[2])
    \/ DlStop
    \/ DlRun

\* The worker when the GUI only starts downloads, one after or during the other,
\* and never calls stop().
RestartNext ==
    \/ \E t \in Targets : DlCallAgain(t[1], t[2])
    \/ DlRun

----------------------------------------------------------------------------
\* ExtractionThread
\*
\* A directory is a function from the entry names to entries; an entry is a
\* directory with its contents, a regular file with its contents, or nothing.

EntryNames == {"bin", "lib", "release", "conf"}

NoEntry == [kind |-> "none", items |-> {}]

DirEntry(items) == [kind |-> "dir", items |-> items]

FileEntry(content) == [kind |-> "file", items |-> {content}]

EmptyDir == [n \in EntryNames |-> NoEntry]

\* What the archive holds under each top-level name it may have.
Packed ==
    [n \in EntryNames |->
        CASE n = "bin" -> DirEntry({"java"})
          [] n = "lib" -> DirEntry({"new.jar"})
          [] n = "release" -> FileEntry("v2")
          [] OTHER -> NoEntry]

\* What dest_dir may hold under each name before the first run.
Installed ==
    [n \in EntryNames |->
        CASE n = "lib" -> DirEntry({"old.jar"})
          [] n = "release" -> FileEntry("v1")
          [] n = "conf" -> DirEntry({"settings"})
          [] OTHER -> NoEntry]

Restrict(entries, names) == [n \in EntryNames |-> IF n \in names THEN entries[n] ELSE NoEntry]

\* Path.glob("*"): the names of the entries of a directory
Glob(dir) == {n \in EntryNames : dir[n].kind # "none"}

ExInit ==
    /\ ex = [source_file |-> "", dest_dir |-> "", success |-> TRUE, stopped |-> FALSE]
    /\ exPc = "idle"
    /\ exLocal = [listing |-> {}, member |-> ""]
    /\ \E names \in SUBSET {"bin", "lib", "release"} : archive = Restrict(Packed, names)
    /\ \E names \in SUBSET {"lib", "release", "conf"} : dest = Restrict(Installed, names)
    /\ staging = EmptyDir
    /\ exEvents = <<>>
    /\ exHist = [run |-> 0, outcome |-> "none", stops |-> <<>>, dest0 |-> dest,
                 starts |-> 0, stopCalls |-> 0, past |-> <<>>]
    /\ exWait = "none"

\* Where the run body is: not running, started but not begun, before the backend
\* call, in it, in the merge loop, or after it.
ExPhase(pc) ==
    CASE pc = "idle" -> "idle"
      [] pc = "started" -> "started"
      [] pc \in {"l172", "l173", "l175"} -> "head"
      [] pc = "l180" -> "extract"
      [] pc \in {"l182", "l183", "l185", "l189"} -> "merge"
      [] OTHER -> "tail"

ExEmit(name) == exEvents' = Append(exEvents, [name |-> name, path |-> ex.dest_dir])

\* The run body ends: by falling off its end or by an uncaught exception.
ExFinish(outcome) ==
    /\ exPc' = "idle"
    /\ exLocal' = [listing |-> {}, member |-> ""]
    /\ exHist' = [exHist EXCEPT !.outcome = outcome,
                                !.past = Append(@, [outcome |-> outcome, dest |-> dest])]

ExStep(from, to) ==
    /\ exPc = from
    /\ exPc' = to

\* __call__(source, destination): the attributes are overwritten, then QThread.start(),
\* which does nothing when the thread is already running.
ExCall(source, destination) ==
    /\ exWait = "none"
    /\ exHist.starts < MaxExtractions
    /\ ex' = [ex EXCEPT !.source_file = source, !.dest_dir = destination]
    /\ IF exPc = "idle"
       THEN /\ exPc' = "started"
            /\ exEvents' = <<>>
            /\ exHist' = [exHist EXCEPT !.run = @ + 1, !.outcome = "running",
                                        !.stops = <<>>, !.dest0 = dest, !.starts = @ + 1]
       ELSE /\ exHist' = [exHist EXCEPT !.starts = @ + 1]
            /\ UNCHANGED <<exPc, exEvents>>
    /\ UNCHANGED <<exLocal, archive, dest, staging>>
    /\ UNCHANGED <<exWait, dlVars, boxes>>

\* stop(), lines 164-168: _stopped = True, success = False,
\* endExtract.emit(str(self.dest_dir)); exit(0) ends an event loop that run() never
\* enters, and nothing in the run body reads _stopped
ExStop ==
    /\ exWait = "none"
    /\ exHist.stopCalls < MaxStops
    /\ ex' = [ex EXCEPT !.stopped = TRUE, !.success = FALSE]
    /\ ExEmit("EndExtract")
    /\ exHist' = [exHist EXCEPT !.stops = Append(@, ExPhase(exPc)), !.stopCalls = @ + 1]
    /\ UNCHANGED <<exPc, exLocal, archive, dest, staging>>
    /\ UNCHANGED <<exWait, dlVars, boxes>>

\* run(), line 171
ExRunResetStopped ==
    /\ ExStep("started", "l172")
    /\ ex' = [ex EXCEPT !.stopped = FALSE]
    /\ UNCHANGED <<exLocal, archive, dest, staging, exEvents, exHist>>
    /\ UNCHANGED <<exWait, dlVars, boxes>>

\* A run body that starts without clearing success.
ExRunKeepSuccess ==
    /\ ExStep("l172", "l173")
    /\ UNCHANGED <<ex, exLocal, archive, dest, staging, exEvents, exHist>>
    /\ UNCHANGED <<exWait, dlVars, boxes>>

\* run(), line 172
ExRunResetSuccess ==
    /\ ExStep("l172", "l173")
    /\ ex' = [ex EXCEPT !.success = FALSE]
    /\ UNCHANGED <<exLocal, archive, dest, staging, exEvents, exHist>>
    /\ UNCHANGED <<exWait, dlVars, boxes>>

\* run(), line 173
ExRunBeginExtract ==
    /\ ExStep("l173", "l175")
    /\ ExEmit("BeginExtract")
    /\ UNCHANGED <<ex, exLocal, archive, dest, staging, exHist>>
    /\ UNCHANGED <<exWait, dlVars, boxes>>

\* run(), lines 175-178: tempfile.mkdtemp() makes a new, empty directory
ExRunMkdtemp ==
    /\ ExStep("l175", "l180")
    /\ staging' = EmptyDir
    /\ UNCHANGED <<ex, exLocal, archive, dest, exEvents, exHist>>
    /\ UNCHANGED <<exWait, dlVars, boxes>>

\* run(), line 180: patoolib.extract_archive(source_path, outdir=temp_dest_path)
ExRunExtract ==
    /\ ExStep("l180", "l182")
    /\ staging' = archive
    /\ UNCHANGED <<ex, exLocal, archive, dest, exEvents, exHist>>
    /\ UNCHANGED <<exWait, dlVars, boxes>>

\* run(), line 180: the archive backend raises (corrupt or unsupported archive)
ExRunExtractFails ==
    /\ exPc = "l180"
    /\ ExFinish("PatoolError")
    /\ UNCHANGED <<ex, archive, dest, staging, exEvents>>
    /\ UNCHANGED <<exWait, dlVars, boxes>>

\* run(), line 182: temp_dir.glob("*") lists the temporary directory
ExRunList ==
    /\ ExStep("l182", "l183")
    /\ exLocal' = [exLocal EXCEPT !.listing = Glob(staging)]
    /\ UNCHANGED <<ex, archive, dest, staging, exEvents, exHist>>
    /\ UNCHANGED <<exWait, dlVars, boxes>>

\* run(), lines 182-183: the next member, in the order the listing gives, and
\* whether dest_dir has an entry of that name
ExRunNextMember ==
    /\ exPc = "l183"
    /\ \E member \in exLocal.listing :
           /\ exLocal' = [listing |-> exLocal.listing \ {member}, member |-> member]
           /\ exPc' = IF member \in Glob(dest) THEN "l185" ELSE "l189"
    /\ UNCHANGED <<ex, archive, dest, staging, exEvents, exHist>>
    /\ UNCHANGED <<exWait, dlVars, boxes>>

\* An rmtree of the parent: every entry of the directory is removed.
RmTreeParent(dir, member) == [n \in DOMAIN dir |-> [kind |-> "none", items |-> {}]]

\* shutil.rmtree(path): a directory is removed with all it holds
RmTree(dir, member) == [dir EXCEPT ![member] = NoEntry]

\* run(), line 185: shutil.rmtree(self.dest_dir / member); on anything but a
\* directory it raises NotADirectoryError and removes nothing
ExRunRmtree ==
    /\ exPc = "l185"
    /\ IF dest[exLocal.member].kind = "dir"
       THEN /\ dest' = RmTree(dest, exLocal.member)
            /\ exPc' = "l189"
            /\ UNCHANGED <<exLocal, exHist>>
       ELSE /\ ExFinish("NotADirectoryError")
            /\ UNCHANGED dest
    /\ UNCHANGED <<ex, archive, staging, exEvents>>
    /\ UNCHANGED <<exWait, dlVars, boxes>>

\* shutil.move(src, dst): into dst when dst is an existing directory, else to dst
Move(target, entry, member) ==
    IF target[member].kind = "dir"
    THEN [target EXCEPT ![member].items = @ \cup {member}]
    ELSE [target EXCEPT ![member] = entry]

\* run(), line 189: shutil.move(temp_dir / member, self.dest_dir / member)
ExRunMove ==
    /\ ExStep("l189", "l183")
    /\ dest' = Move(dest, staging[exLocal.member], exLocal.member)
    /\ staging' = [staging EXCEPT ![exLocal.member] = NoEntry]
    /\ UNCHANGED <<ex, exLocal, archive, exEvents, exHist>>
    /\ UNCHANGED <<exWait, dlVars, boxes>>

\* run(), line 182: the listing is exhausted
ExRunLoopEnd ==
    /\ ExStep("l183", "l191")
    /\ exLocal.listing = {}
    /\ UNCHANGED <<ex, exLocal, archive, dest, staging, exEvents, exHist>>
    /\ UNCHANGED <<exWait, dlVars, boxes>>

\* run(), line 191
ExRunSetSuccess ==
    /\ ExStep("l191", "l192")
    /\ ex' = [ex EXCEPT !.success = TRUE]
    /\ UNCHANGED <<exLocal, archive, dest, staging, exEvents, exHist>>
    /\ UNCHANGED <<exWait, dlVars, boxes>>

\* run(), line 192
ExRunEndExtract ==
    /\ exPc = "l192"
    /\ ExEmit("EndExtract")
    /\ ExFinish("completed")
    /\ UNCHANGED <<ex, archive, dest, staging>>
    /\ UNCHANGED <<exWait, dlVars, boxes>>

\* __del__, lines 155-156: the GUI thread enters self.wait()
ExDel ==
    /\ exWait = "none"
    /\ exWait' = "waiting"
    /\ UNCHANGED <<ex, exPc, exLocal, archive, dest, staging, exEvents, exHist>>
    /\ UNCHANGED <<dlVars, boxes>>

\* A wait() that returns whether or not the thread has finished.
ExDelReturnAtOnce ==
    /\ exWait = "waiting"
    /\ exWait' = "returned"
    /\ UNCHANGED <<ex, exPc, exLocal, archive, dest, staging, exEvents, exHist>>
    /\ UNCHANGED <<dlVars, boxes>>

\* __del__, line 156: QThread.wait() returns once the thread has finished (at once
\* when it was never started)
ExDelReturn ==
    /\ exWait = "waiting"
    /\ exPc = "idle"
    /\ exWait' = "returned"
    /\ UNCHANGED <<ex, exPc, exLocal, archive, dest, staging, exEvents, exHist>>
    /\ UNCHANGED <<dlVars, boxes>>

ExNext ==
    \/ ExCall("jdk.zip", "jvman")
    \/ ExStop
    \/ ExRunResetStopped
    \/ ExRunResetSuccess
    \/ ExRunBeginExtract
    \/ ExRunMkdtemp
    \/ ExRunExtract
    \/ ExRunExtractFails
    \/ ExRunList
    \/ ExRunNextMember
    \/ ExRunRmtree
    \/ ExRunMove
    \/ ExRunLoopEnd
    \/ ExRunSetSuccess
    \/ ExRunEndExtract

----------------------------------------------------------------------------
\* CheckBoxButtonGroup
\*
\* A QButtonGroup that is not exclusive and calls reset() whenever one of its
\* buttons is toggled.

Boxes == 1..MaxButtons

\* A check box that is in no group yet.
Loose == [member |-> FALSE, checked |-> FALSE, enabled |-> TRUE, enabled0 |-> TRUE]

\* checked_buttons(): the buttons of the group that are checked
CheckedButtons(bx) == {b \in Boxes : bx[b].member /\ bx[b].checked}

\* A reset that disables the last checked button and never enables one again.
ResetNoEnable(bx) ==
    LET checked == CheckedButtons(bx)
    IN IF Cardinality(checked) = 1
       THEN [b \in Boxes |-> IF b \in checked THEN [bx[b] EXCEPT !.enabled = FALSE]
                                              ELSE bx[b]]
       ELSE bx

\* reset(), lines 25-34
Reset(bx) ==
    LET checked == CheckedButtons(bx)
    IN IF Cardinality(checked) = 1
       THEN [b \in Boxes |-> IF b \in checked THEN [bx[b] EXCEPT !.enabled = FALSE]
                                              ELSE bx[b]]
       ELSE [b \in Boxes |-> IF b \in checked THEN [bx[b] EXCEPT !.enabled = TRUE]
                                              ELSE bx[b]]

\* super().addButton(button): the button, in the state it has, joins the group
Join(bx, b, checked, enabled) ==
    [bx EXCEPT ![b] = [member |-> TRUE, checked |-> checked, enabled |-> enabled,
                       enabled0 |-> enabled]]

GroupInit == boxes = [b \in Boxes |-> Loose]

\* addButton(button), lines 11-14
AddButton(b, checked, enabled) ==
    /\ ~boxes[b].member
    /\ boxes' = Reset(Join(boxes, b, checked, enabled))
    /\ UNCHANGED <<dlVars, exVars>>

\* add_buttons(*buttons), lines 16-20: all the buttons join, then one reset()
RECURSIVE JoinAll(_, _, _)
JoinAll(bx, new, state) ==
    IF new = {} THEN bx
    ELSE LET b == CHOOSE x \in new : TRUE
         IN JoinAll(Join(bx, b, state[b][1], state[b][2]), new \ {b}, state)

AddButtons(new, state) ==
    /\ \A b \in new : ~boxes[b].member
    /\ boxes' = Reset(JoinAll(boxes, new, state))
    /\ UNCHANGED <<dlVars, exVars>>

\* The user clicks an enabled check box of the group: it toggles, and buttonToggled
\* calls reset() (line 9).
Toggle(b) ==
    /\ boxes[b].member
    /\ boxes[b].enabled
    /\ boxes' = Reset([boxes EXCEPT ![b].checked = ~@])
    /\ UNCHANGED <<dlVars, exVars>>

GroupNext ==
    \/ \E b \in Boxes, checked \in BOOLEAN, enabled \in BOOLEAN :
           AddButton(b, checked, enabled)
    \/ \E new \in SUBSET Boxes :
           \E state \in [new -> BOOLEAN \X BOOLEAN] : AddButtons(new, state)
    \/ \E b \in Boxes : Toggle(b)

----------------------------------------------------------------------------
\* The specifications: one worker at work, the other as constructed.

DlParked ==
    /\ dl = [use_bytesio |-> FALSE, filename |-> NoName, filesize |-> -1,
             downloaded_bytes |-> 0, url |-> "", location |-> "",
             file_location |-> NoPath, part_location |-> NoPath,
             success |-> FALSE, stopped |-> FALSE]
    /\ dlPc = "idle"
    /\ dlLocal = NoLocal
    /\ fs = [p \in AllPaths |-> Absent]
    /\ dlEvents = <<>>
    /\ dlHist = [run |-> 0, outcome |-> "none", stops |-> <<>>, fs0 |-> fs, dl0 |-> dl,
                 request |-> NoResponse, written |-> <<>>, starts |-> 0, stopCalls |-> 0,
                 args |-> <<"", "">>]

ExParked ==
    /\ ex = [source_file |-> "", dest_dir |-> "", success |-> TRUE, stopped |-> FALSE]
    /\ exPc = "idle"
    /\ exLocal = [listing |-> {}, member |-> ""]
    /\ archive = EmptyDir
    /\ dest = EmptyDir
    /\ staging = EmptyDir
    /\ exEvents = <<>>
    /\ exHist = [run |-> 0, outcome |-> "none", stops |-> <<>>, dest0 |-> dest,
                 starts |-> 0, stopCalls |-> 0, past |-> <<>>]
    /\ exWait = "none"

InitDownload == DlInit /\ ExParked /\ GroupInit

InitExtract == ExInit /\ DlParked /\ GroupInit

InitGroup == GroupInit /\ DlParked /\ ExParked

SpecDownload == InitDownload /\ [][DlNext]_vars

SpecExtract == InitExtract /\ [][ExNext]_vars

SpecRestart == InitDownload /\ [][RestartNext]_vars

\* The extraction worker with its destruction: the GUI thread calls __call__ and
\* stop() until it destroys the worker, and wait() returns when it can.
JoinNext ==
    \/ ExNext
    \/ ExDel
    \/ ExDelReturn

SpecJoin == InitExtract /\ [][JoinNext]_vars /\ WF_vars(ExDelReturn)

SpecGroup == InitGroup /\ [][GroupNext]_vars

----------------------------------------------------------------------------
\* Properties

Range(f) == {f[i] : i \in DOMAIN f}

Positions(events, names) == {i \in 1..Len(events) : events[i].name \in names}

FinalPaths == {p \in AllPaths : p.name = ServedName}

\* The download thread is not running, a run was launched, and every stop()
\* since the latest launch was called while that run was active.
DlRunOver == dlPc = "idle" /\ dlHist.run > 0 /\ "idle" \notin Range(dlHist.stops)

ExRunOver == exPc = "idle" /\ exHist.run > 0 /\ "idle" \notin Range(exHist.stops)

\* C1: a download run that completed normally, or that was stopped by a stop() call
\* made between start() and the end of the run body, has emitted exactly one
\* EndDownload event.
C1_ExactlyOneEndDownload ==
    (DlRunOver /\ (dlHist.outcome = "completed"
                      \/ (dlHist.stops # <<>> /\ dlHist.outcome = "returned")))
        => Count(dlEvents, "EndDownload") = 1

\* C2: when stop() was called after start() and before the run body finished, the
\* succeeded flag is false once the run body has ended, until the next start().
C2_StoppedMeansNotSucceeded ==
    (DlRunOver /\ dlHist.stops # <<>>) => ~dl.success

\* The events that come after an event of name `terminal` in the log.
After(events, terminal) ==
    {events[j].name : j \in {k \in 1..Len(events) :
                                 \E i \in Positions(events, {terminal}) : i < k}}

\* C3: the terminal event is the last event of its run: once EndDownload was emitted
\* (by run() or by stop()), the run emits no BytesChanged, ChunkWritten,
\* BeginDownload, FilenameFound, FilesizeFound, EndRequest or further EndDownload;
\* and once EndExtract was emitted, the extraction run emits no further EndExtract.
C3_TerminalEventIsLast ==
    /\ "idle" \notin Range(dlHist.stops)
           => After(dlEvents, "EndDownload")
                  \cap {"BytesChanged", "ChunkWritten", "BeginDownload", "FilenameFound",
                        "FilesizeFound", "EndRequest", "EndDownload"} = {}
    /\ "idle" \notin Range(exHist.stops)
           => "EndExtract" \notin After(exEvents, "EndExtract")

\* C4: bytesWritten never exceeds totalBytes during a run, and when a run has ended
\* with succeeded = true, bytesWritten equals totalBytes, the sidecar path does not
\* exist and a file exists at finalPath.
C4_SuccessMeansAllBytes ==
    /\ DlPhase(dlPc) \in {"loop", "tail"} => dl.downloaded_bytes <= dl.filesize
    /\ (dlPc = "idle" /\ dlHist.outcome = "completed" /\ dl.success)
           => /\ dl.downloaded_bytes = dl.filesize
              /\ ~fs[dl.part_location].exists
              /\ fs[dl.file_location].exists

\* C5: in every state, in either mode, the file at finalPath is absent, or the
\* complete file that was there when the run started, or the complete body the run
\* downloaded (all its chunks, once the chunk loop is over).
C5_FinalFileNeverPartial ==
    \A p \in FinalPaths :
        \/ fs[p] = Absent
        \/ fs[p] = dlHist.fs0[p]
        \/ /\ DlPhase(dlPc) = "tail" \/ (dlPc = "idle" /\ dlHist.outcome = "completed")
           /\ fs[p] = File(dlHist.written)

\* C6: when dest_dir held an entry X (a file or a directory) at the start of a run
\* whose archive was unpacked and has a top-level X, and stop() was not called, the
\* run succeeds and dest_dir/X is then exactly the archive's X.
C6_ExistingEntryReplaced ==
    LET both == {n \in EntryNames : exHist.dest0[n] # NoEntry /\ archive[n] # NoEntry}
    IN (ExRunOver /\ exHist.stopCalls = 0 /\ exHist.outcome # "PatoolError" /\ both # {})
           => /\ ex.success
              /\ \A n \in both : dest[n] = archive[n]

\* The merge phase of the latest run ran to its end.
ExMerged == exPc \in {"l191", "l192"} \/ (exPc = "idle" /\ exHist.outcome = "completed")

\* C7: after a successful extraction, in whatever order the staged entries were
\* processed, every top-level entry of the archive is in dest_dir (as the archive has
\* it) and every other entry of dest_dir is as it was when the run started.
C7_MergeFrame ==
    ExMerged =>
        \A n \in EntryNames :
            IF archive[n] # NoEntry THEN dest[n] = archive[n] ELSE dest[n] = exHist.dest0[n]

\* C7's case (Scenario C): an archive with lib and bin was merged into a dest_dir
\* that held a stale lib directory and an entry the archive does not have.
C7_Witness ==
    /\ exPc = "idle" /\ exHist.outcome = "completed"
    /\ archive["lib"] # NoEntry /\ archive["bin"] # NoEntry
    /\ exHist.dest0["lib"] = Installed["lib"] /\ exHist.dest0["conf"] = Installed["conf"]
    /\ dest["lib"] = Packed["lib"] /\ dest["conf"] = Installed["conf"]

\* C8: extraction is idempotent: when the same archive is extracted twice in
\* succession into the same dest_dir (no stop(), the backend unpacks it both times)
\* and the first run succeeded, the second run succeeds too and leaves the listing
\* the first run left.
C8_Idempotent ==
    (Len(exHist.past) = 2 /\ exHist.stopCalls = 0 /\ exHist.past[1].outcome = "completed"
        /\ exHist.past[2].outcome # "PatoolError")
        => /\ exHist.past[2].outcome = "completed"
           /\ exHist.past[2].dest = exHist.past[1].dest

\* C9: when stop() was called while an extraction run was active (during the
\* backend extraction call or during the merge phase), exactly one EndExtract event
\* was emitted for the run and succeeded is false once the run body has ended.
C9_StopAbortsExtraction ==
    (ExRunOver /\ exHist.stops # <<>> /\ Range(exHist.stops) \subseteq {"extract", "merge"})
        => /\ Count(exEvents, "EndExtract") = 1
           /\ ~ex.success

\* The response has no Content-Length, or no Content-Disposition in which something
\* follows a "filename=".
LacksMetadata(r) ==
    /\ r.status # 0
    /\ \/ "content-length" \notin DOMAIN r.headers
       \/ "content-disposition" \notin DOMAIN r.headers
       \/ LET v == r.headers["content-disposition"]
          IN ~\E i \in 1..(Len(v) - 1) : v[i] = "filename="

\* C10: when the response lacks Content-Length, or a Content-Disposition with a
\* matching filename= parameter, the run fails: it never gets past the header
\* lines, succeeded stays false, no BeginDownload, BytesChanged or ChunkWritten is
\* emitted, no file is created or changed, and no file name or path is set.
C10_MissingMetadataFails ==
    LacksMetadata(dlHist.request) =>
        /\ dlPc \in {"l242", "l244", "l246", "l247", "idle"}
        /\ dlHist.outcome \in {"running", "HTTPError", "KeyError", "IndexError"}
        /\ ~dl.success
        /\ Positions(dlEvents, {"BeginDownload", "BytesChanged", "ChunkWritten",
                                "FilenameFound", "FilesizeFound"}) = {}
        /\ fs = dlHist.fs0
        /\ dl.filename = dlHist.dl0.filename
        /\ dl.file_location = dlHist.dl0.file_location
        /\ dl.part_location = dlHist.dl0.part_location

\* C10's case (Scenario B): a 200 response without Content-Length ended the run.
C10_Witness ==
    /\ dlPc = "idle" /\ dlHist.outcome = "KeyError"
    /\ dlHist.request.status = 200
    /\ "content-length" \notin DOMAIN dlHist.request.headers
    /\ "content-disposition" \in DOMAIN dlHist.request.headers

\* The exceptions that end a run body of either worker.
DlFailures == {"ConnectionError", "HTTPError", "KeyError", "IndexError",
               "ChunkedEncodingError"}

ExFailures == {"PatoolError", "NotADirectoryError"}

\* C11: a run of either worker that failed, with no stop() call, has emitted exactly
\* one terminal event, and succeeded is false.
C11_FailedRunEmitsTerminal ==
    /\ (dlPc = "idle" /\ dlHist.stopCalls = 0 /\ dlHist.outcome \in DlFailures)
           => (Count(dlEvents, "EndDownload") = 1 /\ ~dl.success)
    /\ (exPc = "idle" /\ exHist.stopCalls = 0 /\ exHist.outcome \in ExFailures)
           => (Count(exEvents, "EndExtract") = 1 /\ ~ex.success)

\* C12: after a read of the response body failed, one request was made, the sidecar
\* file is on disk with the chunks written so far, the file at file_location is as
\* it was before the run, and succeeded is false.
C12_ReadFailureKeepsSidecar ==
    (dlPc = "idle" /\ dlHist.outcome = "ChunkedEncodingError")
        => /\ Count(dlEvents, "BeginRequest") = 1
           /\ fs[dl.part_location] = File(dlHist.written)
           /\ fs[dl.file_location] = dlHist.fs0[dl.file_location]
           /\ ~dl.success

\* C13: after the archive backend failed the run is over, dest_dir is as it was
\* when the run started, and succeeded is false.
C13_BackendFailureTouchesNothing ==
    exHist.outcome = "PatoolError"
        => /\ exPc = "idle"
           /\ dest = exHist.dest0
           /\ ~ex.success

\* C13's case: the backend failed on an archive whose lib would have replaced the
\* lib of dest_dir.
C13_Witness ==
    /\ exPc = "idle" /\ exHist.outcome = "PatoolError"
    /\ archive["lib"] # NoEntry /\ archive["bin"] # NoEntry
    /\ dest["lib"] = Installed["lib"]

\* C14: while a run is active there is one execution of the run body, and it requests
\* the URL and writes under the directory that were passed to the __call__ that
\* launched it, whatever __call__ is given meanwhile.
C14_StartWhileActiveIgnored ==
    dlPc # "idle" =>
        /\ Count(dlEvents, "BeginRequest") <= 1
        /\ dlLocal.request # NoResponse => dlLocal.url = dlHist.args[1]
        /\ DlPhase(dlPc) \in {"loop", "tail"} => dl.file_location.dir = dlHist.args[2]

\* The values of the BytesChanged events, in the order they were emitted.
BytesChangedValues ==
    LET changed == SelectSeq(dlEvents, LAMBDA e : e.name = "BytesChanged")
    IN [i \in 1..Len(changed) |-> changed[i].num]

\* The lengths of the chunks the run has written.
WrittenLens == [i \in 1..Len(dlHist.written) |-> dlHist.written[i].len]

C17_StopFreezesFiles ==
    [][("loop" \in Range(dlHist.stops) /\ dlHist.run' = dlHist.run) => fs' = fs]_vars

\* The names of the events of the latest run, in the order they were emitted.
EventNames == [i \in 1..Len(dlEvents) |-> dlEvents[i].name]

\* The events every run begins with.
RunPrologue == <<"BeginRequest", "EndRequest", "FilenameFound", "FilesizeFound",
                 "BeginDownload">>

\* names is a prefix of RunPrologue, then BytesChanged and ChunkWritten in turn,
\* then EndDownload.
InFixedOrder(names) ==
    \A i \in 1..Len(names) :
        IF i <= Len(RunPrologue)
        THEN names[i] = RunPrologue[i]
        ELSE LET odd == (i - Len(RunPrologue)) % 2 = 1
             IN \/ names[i] = "EndDownload" /\ i = Len(names) /\ odd
                \/ names[i] = (IF odd THEN "BytesChanged" ELSE "ChunkWritten")

\* C18: in a run in which stop() is not called the events come in the fixed order,
\* one BytesChanged and ChunkWritten per chunk written; the request is made only
\* after BeginRequest, EndRequest comes only after a response was received, and
\* BeginDownload only after file_location and part_location were computed.
C18_EventsInFixedOrder ==
    (dlHist.run > 0 /\ dlHist.stops = <<>>) =>
        /\ InFixedOrder(EventNames)
        /\ Count(dlEvents, "BytesChanged") <= Len(dlHist.written)
        /\ dlHist.request # NoResponse => Count(dlEvents, "BeginRequest") = 1
        /\ Count(dlEvents, "EndRequest") > 0 => dlHist.request # NoResponse
        /\ \A i \in Positions(dlEvents, {"BeginDownload"}) :
               /\ dl.file_location # NoPath
               /\ dlEvents[i].path = dl.file_location
               /\ dl.part_location = PartPath(dl.file_location)

\* C18's case: a run that was not stopped wrote a chunk and completed.
C18_Witness ==
    /\ dlPc = "idle" /\ dlHist.outcome = "completed" /\ dlHist.stops = <<>>
    /\ EventNames = RunPrologue \o <<"BytesChanged", "ChunkWritten", "EndDownload">>

\* C19: every EndDownload of a run carries a path that is set, lies in the directory
\* the run was started for, and equals the payload of the run's BeginDownload when
\* there is one.
C19_EndDownloadCarriesFinalPath ==
    (dlHist.run > 0 /\ "idle" \notin Range(dlHist.stops)) =>
        \A i \in Positions(dlEvents, {"EndDownload"}) :
            /\ dlEvents[i].path # NoPath
            /\ dlEvents[i].path.dir = dlHist.args[2]
            /\ \A j \in Positions(dlEvents, {"BeginDownload"}) :
                   dlEvents[i].path = dlEvents[j].path

\* C20: succeeded is true only when the latest run moved every staged entry into
\* dest_dir and left the staging directory empty; it is false before the first run,
\* while a run has not finished its merge, after a failed run and after a run that
\* stop() was called in.
C20_SucceededMeansMerged ==
    /\ ex.success => /\ ExMerged
                      /\ staging = EmptyDir
                      /\ \A n \in Glob(archive) : dest[n] = archive[n]
    /\ (\/ exHist.run = 0
        \/ exPc \notin {"idle", "l192"}
        \/ exHist.outcome \in ExFailures
        \/ (exHist.stops # <<>> /\ "idle" \notin Range(exHist.stops))) => ~ex.success

C21_AtLeastOneChecked ==
    /\ [](\A b \in Boxes :
             boxes[b].member =>
                 /\ boxes[b].checked =>
                        (~boxes[b].enabled <=> CheckedButtons(boxes) = {b})
                 /\ (~boxes[b].checked /\ ~boxes[b].enabled) => ~boxes[b].enabled0)
    /\ [][CheckedButtons(boxes) # {} => CheckedButtons(boxes') # {}]_vars

\* C21's case: of two checked boxes that were added enabled, the user has unchecked
\* one, and the group has disabled the other, the last one checked.
C21_Witness ==
    \E a, b \in Boxes :
        /\ a # b /\ boxes[a].member /\ boxes[b].member
        /\ boxes[a].checked /\ ~boxes[a].enabled /\ boxes[a].enabled0
        /\ ~boxes[b].checked /\ boxes[b].enabled
        /\ CheckedButtons(boxes) = {a}

====
